---- MODULE Spec2Model ----
(***************************************************************************)
(* Editor Sapiens: the timeline decision engine                            *)
(* (ContentAnalyzer.create_speech_segments, core/processing_modules.py),   *)
(* the timestamp remapper and the subtitle word filter (TimelineRemapper,  *)
(* SubtitleGenerator, core/subtitles.py), the analysis and render tasks    *)
(* (core/orchestrator.py, core/renderer.py), the queue runner of the       *)
(* application (ui/app.py) and the database writer (core/database.py).     *)
(* Each component has its own specification; in it the variables of the    *)
(* other components keep their idle values.                                *)
(*                                                                         *)
(* Time is counted in ticks of 0.05 s, so that the defaults of the code    *)
(* (0.5 s, 0.25 s, 0.2 s, 0.1 s) are the integers 10, 5, 4 and 2.  Word    *)
(* timestamps are even numbers of ticks, which makes the midpoint          *)
(* cur.end + pause / 2 of the code an integer; float rounding is not       *)
(* modelled.                                                               *)
(***************************************************************************)
EXTENDS Integers, Sequences, FiniteSets, TLC

VARIABLES
    words,          \* create_speech_segments: the `words` argument
    config,         \* the settings read through self.config.get
    stop_event,     \* threading.Event shared with the UI thread
    pc,             \* position of the call of create_speech_segments
    i,              \* loop index of `for i in range(len(words) - 1)`
    current_start,  \* local current_start
    segments,       \* local list `segments`
    cut_reason,     \* local cut_reason of the last iteration
    pq,             \* progress queue (messages put by the selector)
    result,         \* value returned by create_speech_segments
    segments_to_keep, \* TimelineRemapper.__init__ argument
    rm_pc,          \* "new" before TimelineRemapper.__init__, then "built"
    _segments,     \* TimelineRemapper._segments
    _original_starts, \* TimelineRemapper._original_starts
    _offsets,      \* TimelineRemapper._offsets
    rm_call,        \* the last lookup made on the remapper and its result
    task_pc,        \* position of Orchestrator.run_sapiens_task
    srt_pc,         \* position of SubtitleGenerator.generate_srt
    remapped_words, \* generate_srt: the local list remapped_words
    tasks,          \* the rows of the task table: the task configurations
    status,         \* the status column of the task table, by task id
    is_running_task, \* App.is_running_task
    current_task_id, \* App.current_task_id
    progress_queue, \* App.progress_queue
    after_calls,    \* the callbacks scheduled with self.after, pending
    threads,        \* the task worker threads started so far
    script,         \* the content of the script file of the task
    script_pc,      \* position of the full-pipeline hand-over to rendering
    _write_queue,   \* DatabaseManager._write_queue
    _writer_stop,   \* DatabaseManager._writer_stop
    _initialized,   \* DatabaseManager._initialized
    old_queue,      \* the queue object that close() replaced
    writer_pc,      \* position of DatabaseManager._writer_loop
    current_op,     \* _writer_loop: the local current_op
    executed,       \* the operations the writer ran on the connection
    response_q,     \* op["response_q"] of every operation
    callers,        \* the threads calling _enqueue_operation
    close_pc,       \* position of DatabaseManager.close
    enq_log,        \* history: the operations put on the queue, in order
    close_mark      \* history: Len(enq_log) when close() was called

selVars == <<words, config, stop_event, pc, i, current_start, segments,
             cut_reason, pq, result>>
rmVars == <<segments_to_keep, rm_pc, _segments, _original_starts,
            _offsets, rm_call>>
taskVars == <<task_pc>>
srtVars == <<srt_pc, remapped_words>>
appVars == <<tasks, status, is_running_task, current_task_id,
             progress_queue, after_calls, threads>>
scriptVars == <<script, script_pc>>
dbVars == <<_write_queue, _writer_stop, _initialized, old_queue, writer_pc,
            current_op, executed, response_q, callers, close_pc, enq_log,
            close_mark>>
extVars == <<srtVars, appVars, scriptVars, dbVars>>
vars == <<words, config, stop_event, pc, i, current_start, segments,
          cut_reason, pq, result, segments_to_keep, rm_pc, _segments,
          _original_starts, _offsets, rm_call, task_pc, srt_pc,
          remapped_words, tasks, status, is_running_task, current_task_id,
          progress_queue, after_calls, threads, script, script_pc,
          _write_queue, _writer_stop, _initialized, old_queue, writer_pc,
          current_op, executed, response_q, callers, close_pc, enq_log,
          close_mark>>

-----------------------------------------------------------------------------
(* The values of the components that take no part in a specification *)

SrtIdle ==
    /\ srt_pc = "unused"
    /\ remapped_words = <<>>

AppIdle ==
    /\ tasks = <<>>
    /\ status = <<>>
    /\ is_running_task = FALSE
    /\ current_task_id = 0
    /\ progress_queue = <<>>
    /\ after_calls = <<>>
    /\ threads = <<>>

ScriptIdle ==
    /\ script = <<>>
    /\ script_pc = "unused"

DbIdle ==
    /\ _write_queue = <<>>
    /\ _writer_stop = FALSE
    /\ _initialized = FALSE
    /\ old_queue = <<>>
    /\ writer_pc = "unused"
    /\ current_op = [id |-> 0, wait_for_result |-> FALSE]
    /\ executed = <<>>
    /\ response_q = <<>>
    /\ callers = <<>>
    /\ close_pc = "unused"
    /\ enq_log = <<>>
    /\ close_mark = -1

-----------------------------------------------------------------------------
(* Bounds of the model *)

MaxWords == 3

MaxSegs == 2

MaxTime == 3

-----------------------------------------------------------------------------
(* Small helpers *)

Max(a, b) == IF a >= b THEN a ELSE b

Last(s) == s[Len(s)]

\* Python's None, and a present value, for Optional[...] results
None == <<>>

Some(v) == <<v>>

-----------------------------------------------------------------------------
(* Word texts: strings are sequences of characters, so that              *)
(* word.strip('.,?!- ').lower() is computed and not assumed.             *)

StripChars == {".", ",", "?", "!", "-", " "}

UpperChars == <<"A","B","C","D","E","F","G","H","I","J","K","L","M",
                "N","O","P","Q","R","S","T","U","V","W","X","Y","Z">>

LowerChars == <<"a","b","c","d","e","f","g","h","i","j","k","l","m",
                "n","o","p","q","r","s","t","u","v","w","x","y","z">>

LowerChar(c) ==
    IF \E k \in 1..Len(UpperChars) : UpperChars[k] = c
    THEN LowerChars[CHOOSE k \in 1..Len(UpperChars) : UpperChars[k] = c]
    ELSE c

\* a normalisation that forgets to lower-case
Lower_Unchanged(s) == s

\* str.lower()
Lower(s) == [k \in 1..Len(s) |-> LowerChar(s[k])]

RECURSIVE LStrip(_)
LStrip(s) ==
    IF s # <<>> /\ Head(s) \in StripChars THEN LStrip(Tail(s)) ELSE s

RECURSIVE RStrip(_)
RStrip(s) ==
    IF s # <<>> /\ Last(s) \in StripChars
    THEN RStrip(SubSeq(s, 1, Len(s) - 1)) ELSE s

\* str.strip('.,?!- '): removes the characters at both ends only
Strip(s) == RStrip(LStrip(s))

\* cur.word.strip('.,?!- ').lower()
Normalize(s) == Lower(Strip(s))

IsFiller(w, cfg) == Normalize(w.word) \in cfg.filler_words

-----------------------------------------------------------------------------
(* Configuration (core/config.py, Config.DEFAULT_SETTINGS and the defaults *)
(* given to self.config.get in create_speech_segments)                      *)

FillerWords == { <<"t","i","p","o">>, <<"h","u","m">>, <<"u","h","m">> }

\* "scores" of DEFAULT_SETTINGS: the scores of a long and of a medium pause
DefaultScores == [pause_long |-> -10, pause_medium |-> -7]

DefaultConfig ==
    [ pause_threshold_s         |-> 10,
      filler_words              |-> FillerWords,
      filler_word_context_pause |-> 5,
      min_segment_duration_s    |-> 4,
      segment_padding_start_s   |-> 2,
      segment_padding_end_s     |-> 2,
      cut_threshold             |-> -7,
      scores                    |-> DefaultScores ]

\* the defaults with the "Cut Threshold" slider (-20..0) moved to -8
StrictCutConfig == [DefaultConfig EXCEPT !.cut_threshold = -8]

\* the defaults with the "Minimum Segment Duration" set to 0
NoMinDurationConfig == [DefaultConfig EXCEPT !.min_segment_duration_s = 0]

\* Settings inside the ranges of the sliders of ui/settings_window.py
\* (pause 0.1..2.0 s, minimum duration 0.1..1.0 s, context pause 0..1.0 s,
\* margins 0..0.5 s), chosen so that the gaps of GridWords fall on both
\* sides of every comparison.
Cfg(thr, ctx, mind, ps, pe) ==
    [ pause_threshold_s         |-> thr,
      filler_words              |-> FillerWords,
      filler_word_context_pause |-> ctx,
      min_segment_duration_s    |-> mind,
      segment_padding_start_s   |-> ps,
      segment_padding_end_s     |-> pe,
      cut_threshold             |-> -7,
      scores                    |-> DefaultScores ]

GridConfigs ==
    { Cfg(4, 1, 2, 1, 1), Cfg(4, 1, 4, 1, 1), Cfg(4, 1, 2, 3, 2),
      Cfg(4, 1, 4, 2, 0), Cfg(4, 2, 2, 0, 3) }

-----------------------------------------------------------------------------
(* Inputs: the word lists                                                  *)

TipoComma == <<" ","T","i","p","o",",">>

Casa == <<" ","c","a","s","a">>

Tipo == <<"t","i","p","o">>

Ola == <<"o","l","a">>

Mundo == <<"m","u","n","d","o">>

Tchau == <<"t","c","h","a","u">>

Word(s, e, t) == [start |-> s, end |-> e, word |-> t]

Pauses == {-2, 0, 2, 4}

Durs == {0, 2}

Texts == {TipoComma, Casa}

Shape == [pause : Pauses, dur : Durs, text : Texts]

\* the words described by a list of shapes: each word starts `pause` after
\* the end of the word before it (the first one `pause` after 0)
RECURSIVE MkWords(_, _)
MkWords(shs, prevEnd) ==
    IF shs = <<>> THEN <<>>
    ELSE LET sh == Head(shs)
             w  == Word(prevEnd + sh.pause, prevEnd + sh.pause + sh.dur, sh.text)
         IN  <<w>> \o MkWords(Tail(shs), w.end)

\* a negative pause makes a word start inside (or before) the word before
\* it; timestamps are never negative
GridWords ==
    { ws \in { MkWords(shs, 0) :
                 shs \in UNION { [1..n -> Shape] : n \in 0..MaxWords } } :
        \A k \in 1..Len(ws) : ws[k].start >= 0 }

-----------------------------------------------------------------------------
(* ContentAnalyzer.create_speech_segments, step by step.                   *)
(* The loop index i is 0-based as in the code; words[k] of the code is     *)
(* words[k + 1] here.                                                      *)

Segment(s, e) == [start |-> s, end |-> e]

\* the first start without the clamp at 0
FirstStart_NoClamp(ws, cfg) == ws[1].start - cfg.segment_padding_start_s

\* line 331: current_start = max(0, words[0].start - padding_start)
FirstStart(ws, cfg) == Max(0, ws[1].start - cfg.segment_padding_start_s)

\* line 345: pause = nxt.start - cur.end
Pause(ws, k) == ws[k + 2].start - ws[k + 1].end

\* the cut decision comparing every pause with the context pause of the
\* filler rule
CutReason_CtxThreshold(ws, k, cfg) ==
    IF Pause(ws, k) > cfg.filler_word_context_pause
    THEN (IF IsFiller(ws[k + 1], cfg) THEN "filler" ELSE "pause")
    ELSE "none"

\* lines 346-355: the cut decision of iteration k
CutReason(ws, k, cfg) ==
    LET cur   == ws[k + 1]
        pause == Pause(ws, k)
        byPause == IF pause >= cfg.pause_threshold_s THEN "pause" ELSE "none"
    IN  IF /\ IsFiller(cur, cfg)
           /\ \/ pause > cfg.filler_word_context_pause
              \/ /\ k > 0
                 /\ cur.start - ws[k].end > cfg.filler_word_context_pause
        THEN "filler"
        ELSE byPause

\* lines 361-368: do the two margins overlap?
MarginsOverlap(ws, k, cfg) ==
    ws[k + 1].end + cfg.segment_padding_end_s
        > ws[k + 2].start - cfg.segment_padding_start_s

\* the whole pause added in place of half of it
Midpoint_WholePause(ws, k) == ws[k + 1].end + Pause(ws, k)

\* line 366: midpoint = cur.end + pause / 2
Midpoint(ws, k) == ws[k + 1].end + (Pause(ws, k) \div 2)

\* the end of the closed segment without the end margin
SegmentEnd_NoEndMargin(ws, k, cfg) ==
    IF MarginsOverlap(ws, k, cfg) THEN Midpoint(ws, k) ELSE ws[k + 1].end

\* lines 361-367: the end of the segment closed by a cut at iteration k
SegmentEnd(ws, k, cfg) ==
    IF MarginsOverlap(ws, k, cfg) THEN Midpoint(ws, k)
    ELSE ws[k + 1].end + cfg.segment_padding_end_s

\* lines 364-368: where the segment after the cut starts
NextSegmentStartCandidate(ws, k, cfg) ==
    IF MarginsOverlap(ws, k, cfg) THEN Midpoint(ws, k)
    ELSE ws[k + 2].start - cfg.segment_padding_start_s

\* the filter dropping an interval that lasts exactly the minimum
KeepsSegment_Strict(s, e, cfg) == (e - s) > cfg.min_segment_duration_s

\* lines 370 and 377: the minimum-duration filter
KeepsSegment(s, e, cfg) == (e - s) >= cfg.min_segment_duration_s

\* lines 370-371 and 377-378: append unless too short
AddSegment(segs, s, e, cfg) ==
    IF KeepsSegment(s, e, cfg) THEN Append(segs, Segment(s, e)) ELSE segs

\* the final end without the end margin
FinalEndTime_NoMargin(ws, cfg) == Last(ws).end

\* line 376: final_end_time = words[-1].end + padding_end
FinalEndTime(ws, cfg) == Last(ws).end + cfg.segment_padding_end_s

\* lines 339-341: the progress message of iteration k
ProgressMsg(ws, k) ==
    [type |-> "progress", stage |-> "Analyzing Content",
     percentage |-> 76 + ((k * 20) \div Len(ws))]

\* the value of lines 316 and 336: an empty list
EmptyList == <<>>

\* lines 314-331: entry; an empty word list returns [] at once
Enter ==
    /\ pc = "call"
    /\ IF words = <<>>
       THEN /\ pc' = "ret_empty"
            /\ result' = EmptyList
            /\ UNCHANGED current_start
       ELSE /\ pc' = "loop"
            /\ current_start' = FirstStart(words, config)
            /\ UNCHANGED result
    /\ UNCHANGED <<words, config, stop_event, i, segments, cut_reason, pq>>
    /\ UNCHANGED <<rmVars, taskVars, extVars>>

\* lines 333-336: the stop event is seen at the head of an iteration
Interrupted ==
    /\ pc = "loop"
    /\ i < Len(words) - 1
    /\ stop_event
    /\ pc' = "ret_interrupted"
    /\ result' = EmptyList
    /\ UNCHANGED <<words, config, stop_event, i, current_start, segments,
                   cut_reason, pq>>
    /\ UNCHANGED <<rmVars, taskVars, extVars>>

\* lines 333-373: one iteration of the word loop
Iterate ==
    /\ pc = "loop"
    /\ i < Len(words) - 1
    /\ ~stop_event
    /\ pq' = IF i % 100 = 0 THEN Append(pq, ProgressMsg(words, i)) ELSE pq
    /\ cut_reason' = CutReason(words, i, config)
    /\ IF cut_reason' # "none"
       THEN /\ segments' = AddSegment(segments, current_start,
                                      SegmentEnd(words, i, config), config)
            /\ current_start' = NextSegmentStartCandidate(words, i, config)
       ELSE UNCHANGED <<segments, current_start>>
    /\ i' = i + 1
    /\ UNCHANGED <<words, config, stop_event, pc, result>>
    /\ UNCHANGED <<rmVars, taskVars, extVars>>

\* lines 375-381: the last segment and the return
Finish ==
    /\ pc = "loop"
    /\ i >= Len(words) - 1
    /\ segments' = AddSegment(segments, current_start,
                              FinalEndTime(words, config), config)
    /\ result' = segments'
    /\ pc' = "ret_segments"
    /\ UNCHANGED <<words, config, stop_event, i, current_start, cut_reason, pq>>
    /\ UNCHANGED <<rmVars, taskVars, extVars>>

\* the UI thread sets the stop event while the task runs (App._stop_task)
SetStop ==
    /\ pc \in {"call", "loop"}
    /\ ~stop_event
    /\ stop_event' = TRUE
    /\ UNCHANGED <<words, config, pc, i, current_start, segments,
                   cut_reason, pq, result>>
    /\ UNCHANGED <<rmVars, taskVars, extVars>>

RmIdle ==
    /\ segments_to_keep = <<>>
    /\ rm_pc = "unused"
    /\ _segments = <<>>
    /\ _original_starts = <<>>
    /\ _offsets = <<>>
    /\ rm_call = [op |-> "none", t |-> 0, t2 |-> 0, ret |-> None]

\* Scenario A: "ola" 0.0-0.5, "mundo" 0.5-1.0, "tchau" 3.0-3.5
ScenarioAWords ==
    << Word(0, 10, Ola), Word(10, 20, Mundo), Word(60, 70, Tchau) >>

\* Scenario B: the filler "tipo" at 2.0-2.3 followed by a pause of 0.3 s
ScenarioBWords ==
    << Word(30, 40, Casa), Word(40, 46, Tipo), Word(52, 60, Casa) >>

\* subtitle cues that overlap in time (SubtitleParser.parse takes the cue
\* times of a .srt file as they are): sorted by start, every end >= start
OverlapWords ==
    << Word(0, 0, Casa), Word(6, 28, Tipo), Word(8, 8, Tipo),
       Word(16, 20, Tipo) >>

OverlapOrderWords ==
    << Word(0, 4, Tipo), Word(6, 24, Tipo), Word(6, 8, Casa),
       Word(10, 26, Tipo), Word(10, 10, Tipo), Word(12, 26, Casa) >>

\* Scenario E: the filler "tipo" 0.1 s before the next word, margins of
\* 0.1 s on each side, and a cut after the next word as well
ScenarioEWords ==
    << Word(0, 10, Casa), Word(20, 26, Tipo), Word(28, 36, Casa),
       Word(60, 70, Casa) >>

\* a pause of 0.6 s, above pause_threshold_s and not above 0.8 s
MediumPauseWords == << Word(0, 10, Ola), Word(22, 30, Mundo) >>

\* a word whose end lies before its start
MalformedWords == << Word(0, 10, Casa), Word(20, 16, Casa) >>

Scenarios ==
    { <<ScenarioAWords, DefaultConfig>>, <<ScenarioBWords, DefaultConfig>>,
      <<ScenarioEWords, DefaultConfig>>,
      <<MediumPauseWords, StrictCutConfig>>,
      <<ScenarioBWords, NoMinDurationConfig>>,
      <<ScenarioEWords, NoMinDurationConfig>>,
      <<OverlapWords, DefaultConfig>>,
      <<OverlapOrderWords, Cfg(4, 1, 2, 3, 3)>>,
      <<MalformedWords, DefaultConfig>> }

SelInputs == (GridWords \X GridConfigs) \cup Scenarios

InitSel ==
    /\ \E inp \in SelInputs : words = inp[1] /\ config = inp[2]
    /\ stop_event = FALSE
    /\ pc = "call"
    /\ i = 0
    /\ current_start = 0
    /\ segments = <<>>
    /\ cut_reason = "none"
    /\ pq = <<>>
    /\ result = <<>>
    /\ RmIdle
    /\ task_pc = "unused"
    /\ SrtIdle /\ AppIdle /\ ScriptIdle /\ DbIdle

NextSel == Enter \/ Interrupted \/ Iterate \/ Finish \/ SetStop

SpecSel == InitSel /\ [][NextSel]_vars

-----------------------------------------------------------------------------
(* TimelineRemapper (core/subtitles.py)                                    *)

\* insertion of x behind every element whose start is <= x.start
RECURSIVE InsertByStart(_, _)
InsertByStart(sorted, x) ==
    IF sorted = <<>> THEN <<x>>
    ELSE IF Head(sorted).start <= x.start
         THEN <<Head(sorted)>> \o InsertByStart(Tail(sorted), x)
         ELSE <<x>> \o sorted

\* the list taken as it is given, without the sort
SortedByStart_Unsorted(segs) == segs

\* line 11: sorted(segments_to_keep, key=lambda s: s['start']), a stable sort
RECURSIVE SortedByStart(_)
SortedByStart(segs) ==
    IF segs = <<>> THEN <<>>
    ELSE InsertByStart(SortedByStart(SubSeq(segs, 1, Len(segs) - 1)), Last(segs))

\* the loop of __init__ remembering the start of the segment in place of
\* its end
RECURSIVE BuildOffsets_LastStart(_, _, _)
BuildOffsets_LastStart(segs, last_original_end, cumulative_offset) ==
    IF segs = <<>> THEN <<>>
    ELSE LET segment == Head(segs)
             cum == cumulative_offset + (segment.start - last_original_end)
         IN  <<cum>> \o BuildOffsets_LastStart(Tail(segs), segment.start, cum)

\* the loop of __init__ appending the time removed before each segment
\* without accumulating it
RECURSIVE BuildOffsets_NoAccumulate(_, _, _)
BuildOffsets_NoAccumulate(segs, last_original_end, cumulative_offset) ==
    IF segs = <<>> THEN <<>>
    ELSE LET segment == Head(segs)
         IN  <<segment.start - last_original_end>>
                 \o BuildOffsets_NoAccumulate(Tail(segs), segment.end,
                                              cumulative_offset)

\* lines 14-22: the offsets appended by the loop of __init__, for the rest
\* `segs` of the sorted list
RECURSIVE BuildOffsets(_, _, _)
BuildOffsets(segs, last_original_end, cumulative_offset) ==
    IF segs = <<>> THEN <<>>
    ELSE LET segment == Head(segs)
             time_removed_before_this == segment.start - last_original_end
             cum == cumulative_offset + time_removed_before_this
         IN  <<cum>> \o BuildOffsets(Tail(segs), segment.end, cum)

\* lines 17 and 20: the starts appended by the loop of __init__
BuildOriginalStarts(segs) == [k \in 1..Len(segs) |-> segs[k].start]

\* bisect.bisect_right(a, x): the loop of the standard library, on the
\* 0-based range lo..hi
RECURSIVE BisectLoop(_, _, _, _)
BisectLoop(a, x, lo, hi) ==
    IF lo < hi
    THEN LET mid == (lo + hi) \div 2
         IN  IF x < a[mid + 1]
             THEN BisectLoop(a, x, lo, mid)
             ELSE BisectLoop(a, x, mid + 1, hi)
    ELSE lo

\* bisect.bisect_left in place of bisect_right
RECURSIVE BisectLeftLoop(_, _, _, _)
BisectLeftLoop(a, x, lo, hi) ==
    IF lo < hi
    THEN LET mid == (lo + hi) \div 2
         IN  IF a[mid + 1] < x
             THEN BisectLeftLoop(a, x, mid + 1, hi)
             ELSE BisectLeftLoop(a, x, lo, mid)
    ELSE lo

bisect_left(a, x) == BisectLeftLoop(a, x, 0, Len(a))

bisect_right(a, x) == BisectLoop(a, x, 0, Len(a))

\* remap_timestamp without the test of line 29
remap_timestamp_NoEndCheck(segs, starts, offsets, original_timestamp) ==
    IF starts = <<>> THEN None
    ELSE LET segment_index == bisect_right(starts, original_timestamp) - 1
         IN  IF segment_index < 0 THEN None
             ELSE Some(original_timestamp - offsets[segment_index + 1])

\* remap_timestamp returning the timestamp without subtracting the offset
remap_timestamp_NoOffset(segs, starts, offsets, original_timestamp) ==
    IF starts = <<>> THEN None
    ELSE LET segment_index == bisect_right(starts, original_timestamp) - 1
         IN  IF segment_index < 0 THEN None
             ELSE IF original_timestamp > segs[segment_index + 1].end THEN None
             ELSE Some(original_timestamp)

\* lines 24-31: TimelineRemapper.remap_timestamp
remap_timestamp(segs, starts, offsets, original_timestamp) ==
    IF starts = <<>> THEN None
    ELSE LET segment_index == bisect_right(starts, original_timestamp) - 1
         IN  IF segment_index < 0 THEN None
             ELSE IF original_timestamp > segs[segment_index + 1].end THEN None
             ELSE Some(original_timestamp - offsets[segment_index + 1])

\* remap_event accepting an event of zero width
remap_event_NonStrict(segs, starts, offsets, start_time, end_time) ==
    LET new_start == remap_timestamp(segs, starts, offsets, start_time)
        new_end   == remap_timestamp(segs, starts, offsets, end_time)
    IN  IF new_start # None /\ new_end # None /\ new_end[1] >= new_start[1]
        THEN Some(<<new_start[1], new_end[1]>>)
        ELSE None

\* lines 33-38: TimelineRemapper.remap_event
remap_event(segs, starts, offsets, start_time, end_time) ==
    LET new_start == remap_timestamp(segs, starts, offsets, start_time)
        new_end   == remap_timestamp(segs, starts, offsets, end_time)
    IN  IF new_start # None /\ new_end # None /\ new_end[1] > new_start[1]
        THEN Some(<<new_start[1], new_end[1]>>)
        ELSE None

\* Scenario D: kept intervals [1.0, 2.0] and [5.0, 6.0]
ScenarioDKept == << Segment(20, 40), Segment(100, 120) >>

\* three kept intervals, the middle one of zero length
ThreeKept == << Segment(1, 2), Segment(3, 3), Segment(5, 6) >>

GridSegments == { Segment(s, e) : s \in 0..MaxTime, e \in 0..MaxTime }

\* kept-interval lists in any order, every interval with start <= end
GridKept ==
    { segs \in UNION { [1..n -> GridSegments] : n \in 0..MaxSegs } :
        \A k \in 1..Len(segs) : segs[k].start <= segs[k].end }

KeptInputs == GridKept \cup {ScenarioDKept, ThreeKept}

\* the timestamps looked up: every tick of the grid and one beyond it, or
\* the timestamps of Scenario D and the bounds of its intervals
QueryTimes(kept) ==
    IF kept = ScenarioDKept THEN {10, 20, 30, 40, 60, 100, 110, 120}
    ELSE 0..(MaxTime + 1)

\* lines 10-22: TimelineRemapper.__init__
Build ==
    /\ rm_pc = "new"
    /\ _segments' = SortedByStart(segments_to_keep)
    /\ _original_starts' = BuildOriginalStarts(_segments')
    /\ _offsets' = BuildOffsets(_segments', 0, 0)
    /\ rm_pc' = "built"
    /\ UNCHANGED <<segments_to_keep, rm_call>>
    /\ UNCHANGED <<selVars, taskVars, extVars>>

\* a call of remap_timestamp on the built instance
RemapTimestamp ==
    /\ rm_pc = "built"
    /\ \E t \in QueryTimes(segments_to_keep) :
          rm_call' = [op |-> "remap_timestamp", t |-> t, t2 |-> t,
                      ret |-> remap_timestamp(_segments, _original_starts,
                                              _offsets, t)]
    /\ UNCHANGED <<segments_to_keep, rm_pc, _segments, _original_starts,
                   _offsets>>
    /\ UNCHANGED <<selVars, taskVars, extVars>>

\* a call of remap_event on the built instance
RemapEvent ==
    /\ rm_pc = "built"
    /\ \E t \in QueryTimes(segments_to_keep),
          t2 \in QueryTimes(segments_to_keep) :
          rm_call' = [op |-> "remap_event", t |-> t, t2 |-> t2,
                      ret |-> remap_event(_segments, _original_starts,
                                          _offsets, t, t2)]
    /\ UNCHANGED <<segments_to_keep, rm_pc, _segments, _original_starts,
                   _offsets>>
    /\ UNCHANGED <<selVars, taskVars, extVars>>

SelIdle ==
    /\ words = <<>>
    /\ config = DefaultConfig
    /\ stop_event = FALSE
    /\ pc = "unused"
    /\ i = 0
    /\ current_start = 0
    /\ segments = <<>>
    /\ cut_reason = "none"
    /\ pq = <<>>
    /\ result = <<>>

InitRemap ==
    /\ segments_to_keep \in KeptInputs
    /\ rm_pc = "new"
    /\ _segments = <<>>
    /\ _original_starts = <<>>
    /\ _offsets = <<>>
    /\ rm_call = [op |-> "none", t |-> 0, t2 |-> 0, ret |-> None]
    /\ SelIdle
    /\ task_pc = "unused"
    /\ SrtIdle /\ AppIdle /\ ScriptIdle /\ DbIdle

NextRemap == Build \/ RemapTimestamp \/ RemapEvent

SpecRemap == InitRemap /\ [][NextRemap]_vars

-----------------------------------------------------------------------------
(* SubtitleGenerator.generate_srt (core/subtitles.py), lines 56-67: the    *)
(* words are remapped onto the edited timeline, the cut ones left out,     *)
(* before the lines are grouped.                                           *)

MaxSrtWords == 2

Whitespace == {" "}

RECURSIVE LStripWhitespace(_)
LStripWhitespace(s) ==
    IF s # <<>> /\ Head(s) \in Whitespace THEN LStripWhitespace(Tail(s))
    ELSE s

RECURSIVE RStripWhitespace(_)
RStripWhitespace(s) ==
    IF s # <<>> /\ Last(s) \in Whitespace
    THEN RStripWhitespace(SubSeq(s, 1, Len(s) - 1)) ELSE s

\* word.word.strip()
StripWhitespace(s) == RStripWhitespace(LStripWhitespace(s))

\* `if remap_result:` on an Optional[Tuple]: None and the empty tuple are
\* false, a pair is true
Truthy(r) == r # None /\ r[1] # <<>>

\* the loop body putting the remapped word before the ones already there
AppendRemapped_Prepend(acc, word, segs, starts, offsets) ==
    LET r == remap_event(segs, starts, offsets, word.start, word.end)
    IN  IF Truthy(r)
        THEN << [text |-> StripWhitespace(word.word),
                 start |-> r[1][1], end |-> r[1][2]] >> \o acc
        ELSE acc

\* lines 59-62: the body of the loop over the words
AppendRemapped(acc, word, segs, starts, offsets) ==
    LET r == remap_event(segs, starts, offsets, word.start, word.end)
    IN  IF Truthy(r)
        THEN Append(acc, [text |-> StripWhitespace(word.word),
                          start |-> r[1][1], end |-> r[1][2]])
        ELSE acc

\* lines 57-62: the loop over the words
RECURSIVE RemapWords(_, _, _, _, _)
RemapWords(ws, acc, segs, starts, offsets) ==
    IF ws = <<>> THEN acc
    ELSE RemapWords(Tail(ws),
                    AppendRemapped(acc, Head(ws), segs, starts, offsets),
                    segs, starts, offsets)

\* lines 56-67: generate_srt up to the grouping of the lines
GenerateSrt ==
    /\ rm_pc = "built"
    /\ srt_pc = "call"
    /\ remapped_words' =
           RemapWords(words, <<>>, _segments, _original_starts, _offsets)
    /\ srt_pc' = IF remapped_words' = <<>> THEN "ret_none" ELSE "grouping"
    /\ UNCHANGED <<selVars, taskVars, rmVars>>
    /\ UNCHANGED <<appVars, scriptVars, dbVars>>

\* the kept intervals handed to the remapper: sorted, not overlapping
SrtKept ==
    { kept \in KeptInputs :
        /\ \A k \in 1..Len(kept) : kept[k].start <= kept[k].end
        /\ \A k \in 1..(Len(kept) - 1) : kept[k].end <= kept[k + 1].start }

\* words of 0, 1 or 2 ticks starting on the grid of the kept intervals
SrtWordSet ==
    { Word(s, s + d, t) : s \in 0..MaxTime, d \in 0..2, t \in {Casa} }

\* a transcription out of order
UnsortedSrtWords == << Word(2, 3, Ola), Word(0, 1, Casa) >>

\* word lists in start order with end >= start, and one out of order
SrtWordInputs ==
    { ws \in UNION { [1..n -> SrtWordSet] : n \in 0..MaxSrtWords } :
        /\ \A k \in 1..Len(ws) : ws[k].start <= ws[k].end
        /\ \A k \in 1..(Len(ws) - 1) : ws[k].start <= ws[k + 1].start }
    \cup {UnsortedSrtWords}

InitSrt ==
    /\ segments_to_keep \in SrtKept
    /\ rm_pc = "new"
    /\ _segments = <<>>
    /\ _original_starts = <<>>
    /\ _offsets = <<>>
    /\ rm_call = [op |-> "none", t |-> 0, t2 |-> 0, ret |-> None]
    /\ words \in SrtWordInputs
    /\ config = DefaultConfig
    /\ stop_event = FALSE
    /\ pc = "unused"
    /\ i = 0
    /\ current_start = 0
    /\ segments = <<>>
    /\ cut_reason = "none"
    /\ pq = <<>>
    /\ result = <<>>
    /\ task_pc = "unused"
    /\ srt_pc = "call"
    /\ remapped_words = <<>>
    /\ AppIdle /\ ScriptIdle /\ DbIdle

NextSrt == Build \/ GenerateSrt

SpecSrt == InitSrt /\ [][NextSrt]_vars

-----------------------------------------------------------------------------
(* Orchestrator.run_sapiens_task (core/orchestrator.py), from the end of   *)
(* the transcription (line 150) on: the analysis stage and the call of the *)
(* selector.  The terminal messages go to the progress queue pq.           *)

\* lines 238-245: the keyword arguments of the call of create_speech_segments
CallKwargs ==
    {"words", "pq", "use_visual", "visual_data", "task_id", "stop_event"}

\* processing_modules.py line 297: the parameters of create_speech_segments
\* (self apart), none of which has a default value
SignatureParams == {"words", "pq", "task_config", "task_id", "stop_event"}

\* a Python call with keyword arguments binds when every keyword names a
\* parameter and every parameter without default gets a value; otherwise it
\* raises TypeError before the body runs
CallBinds ==
    /\ CallKwargs \subseteq SignatureParams
    /\ SignatureParams \subseteq CallKwargs

\* lines 266-272: the handler of InterruptedError
InterruptedMsg ==
    [type |-> "interrupted", message |-> "Processo interrompido pelo usuario."]

\* lines 290-296: the handler of every other exception
ErrorMsg(text) == [type |-> "error", message |-> text]

\* lines 193-198: the progress message that ends the visual stage
AnalysisProgressMsg ==
    [type |-> "progress", stage |-> "Analise", percentage |-> 75]

\* lines 150-154: the checks after the transcription
TaskAfterTranscription ==
    /\ task_pc = "l150"
    /\ IF stop_event
       THEN /\ pq' = Append(pq, InterruptedMsg)
            /\ task_pc' = "ended"
       ELSE IF words = <<>>
       THEN /\ pq' = Append(pq, ErrorMsg("Erro fatal: A transcricao falhou"))
            /\ task_pc' = "ended"
       ELSE /\ pq' = pq
            /\ task_pc' = "l156"
    /\ UNCHANGED <<words, config, stop_event, pc, i, current_start, segments,
                   cut_reason, result>>
    /\ UNCHANGED <<rmVars, extVars>>

\* lines 156-223: the visual stage (errors of the visual analysis are
\* swallowed) ends with a progress message
TaskVisualStage ==
    /\ task_pc = "l156"
    /\ pq' = Append(pq, AnalysisProgressMsg)
    /\ task_pc' = "l225"
    /\ UNCHANGED <<words, config, stop_event, pc, i, current_start, segments,
                   cut_reason, result>>
    /\ UNCHANGED <<rmVars, extVars>>

\* lines 225-226: the stop event is checked before the content analysis
TaskCheckStop ==
    /\ task_pc = "l225"
    /\ IF stop_event
       THEN /\ pq' = Append(pq, InterruptedMsg)
            /\ task_pc' = "ended"
       ELSE /\ pq' = pq
            /\ task_pc' = "l238"
    /\ UNCHANGED <<words, config, stop_event, pc, i, current_start, segments,
                   cut_reason, result>>
    /\ UNCHANGED <<rmVars, extVars>>

\* lines 228-253 and 290-296: the call of create_speech_segments; a call
\* that does not bind raises TypeError, which is logged, raised again and
\* reported as an error
TaskCallSelector ==
    /\ task_pc = "l238"
    /\ IF CallBinds
       THEN /\ pc' = "call"
            /\ task_pc' = "selector"
            /\ pq' = pq
       ELSE /\ pc' = pc
            /\ task_pc' = "ended"
            /\ pq' = Append(pq, ErrorMsg("Erro fatal: TypeError"))
    /\ UNCHANGED <<words, config, stop_event, i, current_start, segments,
                   cut_reason, result>>
    /\ UNCHANGED <<rmVars, extVars>>

\* the UI thread sets the stop event while the task runs (App._stop_queue)
TaskSetStop ==
    /\ task_pc \in {"l150", "l156", "l225", "l238", "selector"}
    /\ ~stop_event
    /\ stop_event' = TRUE
    /\ UNCHANGED <<words, config, pc, i, current_start, segments,
                   cut_reason, pq, result, task_pc>>
    /\ UNCHANGED <<rmVars, extVars>>

InitTask ==
    /\ \E inp \in SelInputs : words = inp[1] /\ config = inp[2]
    /\ stop_event = FALSE
    /\ pc = "unused"
    /\ i = 0
    /\ current_start = 0
    /\ segments = <<>>
    /\ cut_reason = "none"
    /\ pq = <<>>
    /\ result = <<>>
    /\ RmIdle
    /\ task_pc = "l150"
    /\ SrtIdle /\ AppIdle /\ ScriptIdle /\ DbIdle

NextTask ==
    \/ TaskAfterTranscription
    \/ TaskVisualStage
    \/ TaskCheckStop
    \/ TaskCallSelector
    \/ TaskSetStop

SpecTask == InitTask /\ [][NextTask]_vars

-----------------------------------------------------------------------------
(* DatabaseManager (core/database.py): the writer thread, the callers of   *)
(* _enqueue_operation and close().  An operation is known by the number of *)
(* the call that enqueues it; the sentinel None is the operation 0.        *)

MaxOps == 2

Ops == 1..MaxOps

\* line 19: queue.Queue(maxsize=1000)
WriteQueueMaxSize == 1000

\* line 212: queue.Queue(maxsize=1)
ResponseQueueMaxSize == 1

Sentinel == [id |-> 0, wait_for_result |-> FALSE]

NoResult == [kind |-> "none", ok |-> FALSE, op |-> 0]

\* one response queue shared by every operation
ResponseQueueOf_Shared(op) == 1

\* line 212: the response queue made for the operation itself
ResponseQueueOf(op) == op

\* line 152: Queue.get, first in first out
NextOp(queue) == Head(queue)

\* the queue after Queue.get
AfterGet(queue) == Tail(queue)

PutResponse(rq, op, ok) ==
    [rq EXCEPT ![ResponseQueueOf(op)] = Append(@, [ok |-> ok, op |-> op])]

\* lines 203-225: _enqueue_operation up to the wait for the response
Enqueue(c) ==
    /\ callers[c].pc = "idle"
    /\ \E wait \in BOOLEAN :
          IF Len(_write_queue) >= WriteQueueMaxSize
          THEN /\ callers' = [callers EXCEPT ![c] =
                     [pc |-> "returned", wait |-> wait,
                      result |-> [kind |-> "full", ok |-> FALSE, op |-> 0]]]
               /\ UNCHANGED <<_write_queue, enq_log>>
          ELSE /\ _write_queue' = Append(_write_queue,
                                     [id |-> c, wait_for_result |-> wait])
               /\ enq_log' = Append(enq_log, c)
               /\ callers' = [callers EXCEPT ![c] =
                     IF wait
                     THEN [pc |-> "waiting", wait |-> TRUE,
                           result |-> NoResult]
                     ELSE [pc |-> "returned", wait |-> FALSE,
                           result |-> [kind |-> "queued", ok |-> TRUE,
                                       op |-> 0]]]
    /\ UNCHANGED <<_writer_stop, _initialized, old_queue, writer_pc,
                   current_op, executed, response_q, close_pc, close_mark>>
    /\ UNCHANGED <<selVars, rmVars, taskVars, srtVars, appVars, scriptVars>>

\* lines 228-231: the response arrives within the timeout
Receive(c) ==
    /\ callers[c].pc = "waiting"
    /\ response_q[ResponseQueueOf(c)] # <<>>
    /\ callers' = [callers EXCEPT ![c] =
          [pc |-> "returned", wait |-> TRUE,
           result |-> [kind |-> "response",
                       ok |-> Head(response_q[ResponseQueueOf(c)]).ok,
                       op |-> Head(response_q[ResponseQueueOf(c)]).op]]]
    /\ response_q' = [response_q EXCEPT ![ResponseQueueOf(c)] = Tail(@)]
    /\ UNCHANGED <<_write_queue, _writer_stop, _initialized, old_queue,
                   writer_pc, current_op, executed, close_pc, enq_log,
                   close_mark>>
    /\ UNCHANGED <<selVars, rmVars, taskVars, srtVars, appVars, scriptVars>>

\* lines 232-235: queue.Empty after the timeout
Timeout(c) ==
    /\ callers[c].pc = "waiting"
    /\ response_q[ResponseQueueOf(c)] = <<>>
    /\ callers' = [callers EXCEPT ![c] =
          [pc |-> "returned", wait |-> TRUE,
           result |-> [kind |-> "timeout", ok |-> FALSE, op |-> 0]]]
    /\ UNCHANGED <<_write_queue, _writer_stop, _initialized, old_queue,
                   writer_pc, current_op, executed, response_q, close_pc,
                   enq_log, close_mark>>
    /\ UNCHANGED <<selVars, rmVars, taskVars, srtVars, appVars, scriptVars>>

\* line 146: the test of the while loop
WriterLoopTest ==
    /\ writer_pc = "loop"
    /\ writer_pc' = IF _writer_stop THEN "terminated" ELSE "get"
    /\ UNCHANGED <<_write_queue, _writer_stop, _initialized, old_queue,
                   current_op, executed, response_q, callers, close_pc,
                   enq_log, close_mark>>
    /\ UNCHANGED <<selVars, rmVars, taskVars, srtVars, appVars, scriptVars>>

\* the queue object the blocked Queue.get was called on
WriterQueue == IF writer_pc = "get_old" THEN old_queue ELSE _write_queue

\* lines 152-158: Queue.get returns an operation, or the sentinel
WriterGet ==
    /\ writer_pc \in {"get", "get_old"}
    /\ WriterQueue # <<>>
    /\ current_op' = NextOp(WriterQueue)
    /\ IF writer_pc = "get_old"
       THEN old_queue' = AfterGet(old_queue) /\ UNCHANGED _write_queue
       ELSE _write_queue' = AfterGet(_write_queue) /\ UNCHANGED old_queue
    /\ writer_pc' = IF current_op'.id = 0 THEN "terminated" ELSE "exec"
    /\ UNCHANGED <<_writer_stop, _initialized, executed, response_q, callers,
                   close_pc, enq_log, close_mark>>
    /\ UNCHANGED <<selVars, rmVars, taskVars, srtVars, appVars, scriptVars>>

\* lines 152, 184-186: queue.Empty after one second
WriterGetEmpty ==
    /\ writer_pc \in {"get", "get_old"}
    /\ WriterQueue = <<>>
    /\ writer_pc' = "loop"
    /\ UNCHANGED <<_write_queue, _writer_stop, _initialized, old_queue,
                   current_op, executed, response_q, callers, close_pc,
                   enq_log, close_mark>>
    /\ UNCHANGED <<selVars, rmVars, taskVars, srtVars, appVars, scriptVars>>

\* lines 160-181: the operation runs on the connection; it succeeds, it
\* raises, or the commit on leaving `with write_conn` raises after the
\* response {ok: True} was put
WriterExec ==
    /\ writer_pc = "exec"
    /\ executed' = Append(executed, current_op.id)
    /\ \E outcome \in {"ok", "exec_error", "commit_error"} :
          /\ response_q' =
                IF current_op.wait_for_result
                THEN PutResponse(response_q, current_op.id,
                                 outcome # "exec_error")
                ELSE response_q
          /\ writer_pc' =
                IF outcome = "commit_error" /\ current_op.wait_for_result
                THEN "except_put" ELSE "loop"
    /\ UNCHANGED <<_write_queue, _writer_stop, _initialized, old_queue,
                   current_op, callers, close_pc, enq_log, close_mark>>
    /\ UNCHANGED <<selVars, rmVars, taskVars, srtVars, appVars, scriptVars>>

\* lines 174-177: the handler puts {ok: False}; the put blocks while the
\* response queue is full
WriterExceptPut ==
    /\ writer_pc = "except_put"
    /\ Len(response_q[ResponseQueueOf(current_op.id)]) < ResponseQueueMaxSize
    /\ response_q' = PutResponse(response_q, current_op.id, FALSE)
    /\ writer_pc' = "loop"
    /\ UNCHANGED <<_write_queue, _writer_stop, _initialized, old_queue,
                   current_op, executed, callers, close_pc, enq_log,
                   close_mark>>
    /\ UNCHANGED <<selVars, rmVars, taskVars, srtVars, appVars, scriptVars>>

\* lines 307-330: close() sets the stop event, then puts the sentinel
CloseBegin ==
    /\ close_pc = "idle"
    /\ close_mark' = Len(enq_log)
    /\ IF ~_initialized
       THEN /\ close_pc' = "closed"
            /\ UNCHANGED <<_writer_stop, _write_queue>>
       ELSE IF writer_pc = "terminated"
       THEN /\ close_pc' = "finally"
            /\ UNCHANGED <<_writer_stop, _write_queue>>
       ELSE /\ _writer_stop' = TRUE
            /\ _write_queue' =
                  IF Len(_write_queue) < WriteQueueMaxSize
                  THEN Append(_write_queue, Sentinel) ELSE _write_queue
            /\ close_pc' = "join"
    /\ UNCHANGED <<_initialized, old_queue, writer_pc, current_op, executed,
                   response_q, callers, enq_log>>
    /\ UNCHANGED <<selVars, rmVars, taskVars, srtVars, appVars, scriptVars>>

\* lines 331-345: Queue.join(timeout=10) raises TypeError, which is logged;
\* then the thread is joined for at most ten seconds
CloseJoin ==
    /\ close_pc = "join"
    /\ close_pc' = "finally"
    /\ UNCHANGED <<_write_queue, _writer_stop, _initialized, old_queue,
                   writer_pc, current_op, executed, response_q, callers,
                   enq_log, close_mark>>
    /\ UNCHANGED <<selVars, rmVars, taskVars, srtVars, appVars, scriptVars>>

\* lines 350-367: the queue is replaced by a new one
CloseFinally ==
    /\ close_pc = "finally"
    /\ old_queue' = _write_queue
    /\ _write_queue' = <<>>
    /\ writer_pc' = IF writer_pc = "get" THEN "get_old" ELSE writer_pc
    /\ _initialized' = FALSE
    /\ close_pc' = "closed"
    /\ UNCHANGED <<_writer_stop, current_op, executed, response_q, callers,
                   enq_log, close_mark>>
    /\ UNCHANGED <<selVars, rmVars, taskVars, srtVars, appVars, scriptVars>>

InitDb ==
    /\ _write_queue = <<>>
    /\ _writer_stop = FALSE
    /\ _initialized = TRUE
    /\ old_queue = <<>>
    /\ writer_pc = "loop"
    /\ current_op = Sentinel
    /\ executed = <<>>
    /\ response_q = [q \in Ops |-> <<>>]
    /\ callers = [c \in Ops |->
                     [pc |-> "idle", wait |-> FALSE, result |-> NoResult]]
    /\ close_pc = "idle"
    /\ enq_log = <<>>
    /\ close_mark = -1
    /\ SelIdle /\ RmIdle /\ task_pc = "unused"
    /\ SrtIdle /\ AppIdle /\ ScriptIdle

NextDb ==
    \/ \E c \in Ops : Enqueue(c)
    \/ \E c \in Ops : Receive(c)
    \/ \E c \in Ops : Timeout(c)
    \/ WriterLoopTest
    \/ WriterGet
    \/ WriterGetEmpty
    \/ WriterExec
    \/ WriterExceptPut
    \/ CloseBegin
    \/ CloseJoin
    \/ CloseFinally

SpecDb == InitDb /\ [][NextDb]_vars

-----------------------------------------------------------------------------
(* The queue runner of the application (ui/app.py) with the task worker    *)
(* threads it starts (App._run_task_thread, Orchestrator.run_render_task,  *)
(* VideoRenderer.run).  A task is known by its row number; the task table  *)
(* is read and written at once.  The status names are written without      *)
(* their accents.                                                          *)

MaxTasks == 2

MaxThreads == 2

STATUS_QUEUED == "Aguardando"

STATUS_PROCESSING == "Processando..."

STATUS_AWAIT_RENDER == "Aguardando Render"

STATUS_COMPLETED == "Concluido"

STATUS_ERROR == "Erro"

STATUS_INTERRUPTED == "Interrompido"

Modes == {"render_only", "sapiens_only"}

TerminalTypes == {"error", "interrupted", "done"}

\* the variables of the selector other than the stop event, which the
\* application shares with its workers
selRest == <<words, config, pc, i, current_start, segments, cut_reason, pq,
             result>>

Msg(type, task_id) == [type |-> type, task_id |-> task_id]

Callback(fn, task_id, q_type) ==
    [fn |-> fn, task_id |-> task_id, q_type |-> q_type]

Remove(seq, k) == SubSeq(seq, 1, k - 1) \o SubSeq(seq, k + 1, Len(seq))

\* app.py lines 594-598: status_map
StatusMap(type) ==
    IF type = "error" THEN STATUS_ERROR
    ELSE IF type = "interrupted" THEN STATUS_INTERRUPTED
    ELSE STATUS_COMPLETED

\* app.py line 397: the tasks that _start_next_task may pick
Eligible ==
    { t \in 1..Len(tasks) :
        status[t] \in {STATUS_QUEUED, STATUS_INTERRUPTED,
                       STATUS_AWAIT_RENDER} }

FirstEligible == CHOOSE t \in Eligible : \A u \in Eligible : t <= u

NewThread(t) ==
    [task |-> t, mode |-> tasks[t].mode, pc |-> "start",
     render_msgs |-> <<>>, outcome |-> "none"]

\* app.py lines 395-402 and 504-507: _start_next_task, with _queue_done,
\* run with the stop event reading `stop`, the pending callbacks becoming
\* `calls`
StartNextTask(stop, calls) ==
    /\ after_calls' = calls
    /\ IF stop \/ Eligible = {}
       THEN /\ is_running_task' = FALSE
            /\ current_task_id' = 0
            /\ UNCHANGED <<status, threads>>
       ELSE /\ Len(threads) < MaxThreads
            /\ is_running_task' = TRUE
            /\ current_task_id' = FirstEligible
            /\ status' = [status EXCEPT ![FirstEligible] = STATUS_PROCESSING]
            /\ threads' = Append(threads, NewThread(FirstEligible))

\* app.py lines 383-387: the user presses Start
StartQueue ==
    /\ tasks # <<>>
    /\ ~is_running_task
    /\ stop_event' = FALSE
    /\ StartNextTask(FALSE, after_calls)
    /\ UNCHANGED <<tasks, progress_queue>>
    /\ UNCHANGED <<selRest, rmVars, taskVars, srtVars, scriptVars, dbVars>>

\* app.py lines 389-393: the user presses Stop
StopQueue ==
    /\ is_running_task
    /\ stop_event' = TRUE
    /\ UNCHANGED appVars
    /\ UNCHANGED <<selRest, rmVars, taskVars, srtVars, scriptVars, dbVars>>

\* the callbacks scheduled for the terminal messages of a batch: the
\* lambda of line 571 reads task_id and q_item when it runs, after the
\* loop, so every one of them gets the last item of the batch
RECURSIVE BatchCallbacks(_, _)
BatchCallbacks(batch, last) ==
    IF batch = <<>> THEN <<>>
    ELSE (IF Head(batch).type \in TerminalTypes
          THEN << Callback("_task_done_handler", last.task_id, last.type) >>
          ELSE <<>>)
         \o BatchCallbacks(Tail(batch), last)

\* app.py lines 509-586: _process_queues empties the progress queue
ProcessQueues ==
    /\ progress_queue # <<>>
    /\ after_calls' = after_calls
           \o BatchCallbacks(progress_queue, Last(progress_queue))
    /\ progress_queue' = <<>>
    /\ UNCHANGED <<tasks, status, is_running_task, current_task_id, threads>>
    /\ UNCHANGED <<selVars, rmVars, taskVars, srtVars, scriptVars, dbVars>>

\* Tk runs the pending callbacks in the order of their due times: one
\* scheduled with after(0) waits for the after(0) callbacks scheduled
\* before it, one scheduled with after(100) for every callback scheduled
\* before it
Runnable(k) ==
    /\ k \in 1..Len(after_calls)
    /\ IF after_calls[k].fn = "_task_done_handler"
       THEN \A j \in 1..(k - 1) : after_calls[j].fn # "_task_done_handler"
       ELSE k = 1

\* app.py lines 588-617: _task_done_handler
TaskDoneHandler ==
    /\ \E k \in 1..Len(after_calls) :
          /\ Runnable(k)
          /\ after_calls[k].fn = "_task_done_handler"
          /\ IF after_calls[k].q_type \in TerminalTypes
             THEN /\ status' = [status EXCEPT ![after_calls[k].task_id] =
                                    StatusMap(after_calls[k].q_type)]
                  /\ is_running_task' = FALSE
                  /\ after_calls' = Append(Remove(after_calls, k),
                        Callback(IF stop_event THEN "_queue_done"
                                 ELSE "_start_next_task", 0, "none"))
             ELSE /\ after_calls' = Remove(after_calls, k)
                  /\ UNCHANGED <<status, is_running_task>>
    /\ UNCHANGED <<tasks, current_task_id, progress_queue, threads>>
    /\ UNCHANGED <<selVars, rmVars, taskVars, srtVars, scriptVars, dbVars>>

\* app.py lines 395-402: _start_next_task run as a callback
StartNextTaskCallback ==
    /\ Runnable(1)
    /\ after_calls[1].fn = "_start_next_task"
    /\ StartNextTask(stop_event, Tail(after_calls))
    /\ UNCHANGED <<tasks, progress_queue>>
    /\ UNCHANGED <<selVars, rmVars, taskVars, srtVars, scriptVars, dbVars>>

\* app.py lines 504-507: _queue_done run as a callback
QueueDoneCallback ==
    /\ Runnable(1)
    /\ after_calls[1].fn = "_queue_done"
    /\ after_calls' = Tail(after_calls)
    /\ is_running_task' = FALSE
    /\ current_task_id' = 0
    /\ UNCHANGED <<tasks, status, progress_queue, threads>>
    /\ UNCHANGED <<selVars, rmVars, taskVars, srtVars, scriptVars, dbVars>>

\* a step of worker thread k: its position becomes `to`, it puts the
\* messages `msgs`, of which `counted` are terminal messages of
\* run_render_task
WorkerStep(k, to, msgs, counted, outcome) ==
    /\ threads' = [threads EXCEPT ![k] =
          [@ EXCEPT !.pc = to,
                    !.render_msgs = @ \o counted,
                    !.outcome = outcome]]
    /\ progress_queue' = progress_queue \o msgs
    /\ UNCHANGED <<tasks, status, is_running_task, current_task_id,
                   after_calls>>
    /\ UNCHANGED <<selVars, rmVars, taskVars, srtVars, scriptVars, dbVars>>

\* app.py lines 437-439: _run_task_thread sends the first progress message
WorkerStart(k) ==
    /\ threads[k].pc = "start"
    /\ WorkerStep(k,
          IF threads[k].mode = "render_only" THEN "validate" ELSE "sapiens",
          << Msg("progress", threads[k].task) >>, <<>>, "none")

\* orchestrator.py lines 104-309: run_sapiens_task ends with one terminal
\* message, 'interrupted' when it saw the stop event, 'error' otherwise
WorkerSapiens(k) ==
    /\ threads[k].pc = "sapiens"
    /\ \E type \in (IF stop_event THEN {"interrupted", "error"}
                    ELSE {"error"}) :
          WorkerStep(k, "finished", << Msg(type, threads[k].task) >>, <<>>,
                     "analysis")

\* app.py lines 446-474 and 482-498: the script of a render-only task is
\* validated; a script that is refused ends the thread with 'error'
WorkerValidate(k) ==
    /\ threads[k].pc = "validate"
    /\ \/ WorkerStep(k, "renderer_run",
                     << Msg("progress", threads[k].task) >>, <<>>, "none")
       \/ WorkerStep(k, "finished", << Msg("error", threads[k].task) >>,
                     <<>>, "refused")

\* renderer.py lines 104-140 and 145-153: VideoRenderer.run fails, sees
\* the stop event, or gets to the end of the concatenation
RendererRun(k) ==
    /\ threads[k].pc = "renderer_run"
    /\ \/ WorkerStep(k, "after_run", << Msg("error", threads[k].task) >>,
                     << "error" >>, "failed")
       \/ /\ stop_event
          /\ WorkerStep(k, "after_run",
                        << Msg("interrupted", threads[k].task) >>,
                        << "interrupted" >>, "stopped")
       \/ WorkerStep(k, "renderer_l142", <<>>, <<>>, "success")

\* renderer.py lines 142-143
RendererDone(k) ==
    /\ threads[k].pc = "renderer_l142"
    /\ IF stop_event
       THEN WorkerStep(k, "after_run", <<>>, <<>>, threads[k].outcome)
       ELSE WorkerStep(k, "after_run", << Msg("done", threads[k].task) >>,
                       << "done" >>, threads[k].outcome)

\* orchestrator.py lines 352-357 and 367-373: after renderer.run, a set
\* stop event raises InterruptedError, which `except Exception` turns
\* into ProcessingError, reported as 'error'
RenderAfterRun(k) ==
    /\ threads[k].pc = "after_run"
    /\ IF stop_event
       THEN WorkerStep(k, "finally", << Msg("error", threads[k].task) >>,
                       << "error" >>, threads[k].outcome)
       ELSE WorkerStep(k, "finally", <<>>, <<>>, threads[k].outcome)

\* orchestrator.py lines 383-392: the finally block
RenderFinally(k) ==
    /\ threads[k].pc = "finally"
    /\ IF stop_event
       THEN WorkerStep(k, "finished", <<>>, <<>>, threads[k].outcome)
       ELSE WorkerStep(k, "finished", << Msg("done", threads[k].task) >>,
                       << "done" >>, threads[k].outcome)

InitApp ==
    /\ tasks \in UNION { [1..n -> [mode : Modes]] : n \in 1..MaxTasks }
    /\ status = [t \in 1..Len(tasks) |-> STATUS_QUEUED]
    /\ is_running_task = FALSE
    /\ current_task_id = 0
    /\ progress_queue = <<>>
    /\ after_calls = <<>>
    /\ threads = <<>>
    /\ SelIdle /\ RmIdle /\ task_pc = "unused"
    /\ SrtIdle /\ ScriptIdle /\ DbIdle

NextApp ==
    \/ StartQueue
    \/ StopQueue
    \/ ProcessQueues
    \/ TaskDoneHandler
    \/ StartNextTaskCallback
    \/ QueueDoneCallback
    \/ \E k \in 1..Len(threads) : WorkerStart(k)
    \/ \E k \in 1..Len(threads) : WorkerSapiens(k)
    \/ \E k \in 1..Len(threads) : WorkerValidate(k)
    \/ \E k \in 1..Len(threads) : RendererRun(k)
    \/ \E k \in 1..Len(threads) : RendererDone(k)
    \/ \E k \in 1..Len(threads) : RenderAfterRun(k)
    \/ \E k \in 1..Len(threads) : RenderFinally(k)

SpecApp == InitApp /\ [][NextApp]_vars

-----------------------------------------------------------------------------
(* The hand-over of a full-pipeline task from the analysis to rendering:   *)
(* ScriptComposer.generate_and_save_json (core/processing_modules.py)      *)
(* writes the script, App._sapiens_done_handler (ui/app.py) validates it   *)
(* and schedules the render.  A JSON object is a record, its keys the      *)
(* DOMAIN of the record.                                                   *)

ScriptModes == {"full_pipe", "sapiens_only"}

\* round(x, 3): a time on the grid of 0.05 s has two decimals and is left
\* as it is
Round3(t) == t

\* processing_modules.py line 414: the data written to the script file
ScriptData(segs) ==
    [segments |-> [k \in 1..Len(segs) |->
                      [start |-> Round3(segs[k].start),
                       end   |-> Round3(segs[k].end)]]]

\* app.py line 654
required_fields == {"start", "end", "text"}

\* app.py lines 630-673: _validate_script_json returns the data (TRUE) or
\* raises ValueError (FALSE)
ValidScript(data) ==
    /\ "segments" \in DOMAIN data
    /\ data.segments # <<>>
    /\ \A k \in 1..Len(data.segments) :
          /\ required_fields \subseteq DOMAIN data.segments[k]
          /\ data.segments[k].start < data.segments[k].end

\* processing_modules.py lines 404-421 and orchestrator.py lines 258-264:
\* the script is written and 'sapiens_done' is put, or the write fails and
\* the task ends with 'error'
GenerateAndSaveJson ==
    /\ script_pc = "compose"
    /\ \/ /\ script' = Some(ScriptData(segments))
          /\ script_pc' = "saved"
          /\ progress_queue' = << [type |-> "sapiens_done", task_id |-> 1] >>
       \/ /\ script' = None
          /\ script_pc' = "save_failed"
          /\ progress_queue' = << Msg("error", 1) >>
    /\ UNCHANGED <<tasks, status, is_running_task, current_task_id,
                   after_calls, threads>>
    /\ UNCHANGED <<selVars, rmVars, taskVars, srtVars, dbVars>>

\* app.py lines 699-782 with 675-697 and 588-614: _sapiens_done_handler
\* for the message 'sapiens_done'
SapiensDoneHandler ==
    /\ script_pc = "saved"
    /\ progress_queue' = <<>>
    /\ script_pc' = "handled"
    /\ IF tasks[1].mode = "full_pipe"
       THEN IF ValidScript(script[1])
            THEN /\ status' = [status EXCEPT ![1] = STATUS_AWAIT_RENDER]
                 /\ after_calls' = << Callback("start_render_safe", 1,
                                               "none") >>
                 /\ UNCHANGED is_running_task
            ELSE /\ status' = [status EXCEPT ![1] = STATUS_ERROR]
                 /\ after_calls' = << Callback("_start_next_task", 0,
                                               "none") >>
                 /\ is_running_task' = FALSE
       ELSE /\ status' = [status EXCEPT ![1] = STATUS_COMPLETED]
            /\ after_calls' = << Callback("_start_next_task", 0, "none") >>
            /\ is_running_task' = FALSE
    /\ UNCHANGED <<tasks, current_task_id, threads, script>>
    /\ UNCHANGED <<selVars, rmVars, taskVars, srtVars, dbVars>>

\* the segment lists handed to the composer: not empty (orchestrator.py
\* line 247)
ScriptSegmentInputs == { kept \in KeptInputs : kept # <<>> }

InitScript ==
    /\ segments \in ScriptSegmentInputs
    /\ tasks \in [1..1 -> [mode : ScriptModes]]
    /\ status = << STATUS_PROCESSING >>
    /\ is_running_task = TRUE
    /\ current_task_id = 1
    /\ progress_queue = <<>>
    /\ after_calls = <<>>
    /\ threads = <<>>
    /\ script = None
    /\ script_pc = "compose"
    /\ words = <<>>
    /\ config = DefaultConfig
    /\ stop_event = FALSE
    /\ pc = "unused"
    /\ i = 0
    /\ current_start = 0
    /\ cut_reason = "none"
    /\ pq = <<>>
    /\ result = <<>>
    /\ RmIdle /\ task_pc = "unused"
    /\ SrtIdle /\ DbIdle

NextScript == GenerateAndSaveJson \/ SapiensDoneHandler

SpecScript == InitScript /\ [][NextScript]_vars

-----------------------------------------------------------------------------
(* Properties of the selector, checked under SpecSel                       *)

WordsSortedByStart(ws) ==
    \A k \in 1..(Len(ws) - 1) : ws[k].start <= ws[k + 1].start

WordsWellFormed(ws) == \A k \in 1..Len(ws) : ws[k].start <= ws[k].end

\* an Iterate step: the loop index advances
IterateStep == pc = "loop" /\ pc' = "loop" /\ i' = i + 1

\* C1: for words sorted by start (every word with end >= start), adjacent
\* padded intervals of the returned list do not overlap:
\* padded[k].end <= padded[k+1].start.
C1_PaddedNonOverlap ==
    (pc = "ret_segments" /\ WordsSortedByStart(words) /\ WordsWellFormed(words))
        => \A k \in 1..(Len(result) - 1) : result[k].end <= result[k + 1].start

C5_Step ==
    /\ (IterateStep /\ cut_reason' # "none") =>
          /\ current_start' = NextSegmentStartCandidate(words, i, config)
          /\ (SegmentEnd(words, i, config) - current_start
                  < config.min_segment_duration_s) => segments' = segments
    /\ (pc' = "ret_segments" /\ WordsSortedByStart(words)
            /\ WordsWellFormed(words)) =>
          /\ \A k \in 1..Len(result') :
                /\ result'[k].end - result'[k].start
                       >= config.min_segment_duration_s
                /\ result'[k].end > result'[k].start
          /\ \A k \in 1..(Len(result') - 1) :
                result'[k].start <= result'[k + 1].start

\* C5: every returned interval lasts at least min_segment_duration_s (so
\* none is empty or inverted), the returned list is in non-decreasing start
\* order, and a closed interval that is too short is left out while the
\* next interval starts at the next-start candidate.
C5_MinDurationAndOrder == [][C5_Step]_vars

\* C6: when the stop event is seen in the word loop, the value returned is
\* told apart from the value returned for an empty word list, and holds
\* none of the intervals accumulated so far.
C6_CancelledOutcome ==
    pc = "ret_interrupted" =>
        /\ result # EmptyList
        /\ \A k \in 1..Len(result) : \A j \in 1..Len(segments) :
              result[k] # segments[j]

\* C7: an empty word list returns without any interval, and the value it
\* returns is returned by no cancelled run and by no run that produced
\* intervals.
C7_NoInputOutcome ==
    /\ pc = "ret_empty" => (words = <<>> /\ result = <<>> /\ segments = <<>>)
    /\ (pc = "ret_segments" /\ segments # <<>>) => result # EmptyList
    /\ pc = "ret_interrupted" => result # EmptyList

InvalidInput(ws) == ~WordsWellFormed(ws) \/ ~WordsSortedByStart(ws)

\* C8: a word list with a malformed word (end < start) or not sorted by
\* start never produces a normal list of intervals.
C8_InvalidInputRejected == InvalidInput(words) => pc # "ret_segments"

C9_Step ==
    /\ (pc = "call" /\ pc' = "loop") =>
          current_start' =
              (IF words[1].start - config.segment_padding_start_s < 0 THEN 0
               ELSE words[1].start - config.segment_padding_start_s)
    /\ (IterateStep /\ cut_reason' # "none"
            /\ words[i + 1].end + config.segment_padding_end_s
                 <= words[i + 2].start - config.segment_padding_start_s) =>
          /\ current_start' =
                 words[i + 2].start - config.segment_padding_start_s
          /\ segments' # segments =>
                segments' = Append(segments,
                    Segment(current_start,
                            words[i + 1].end + config.segment_padding_end_s))
          /\ segments' = segments =>
                (words[i + 1].end + config.segment_padding_end_s)
                    - current_start < config.min_segment_duration_s
    /\ (pc = "loop" /\ pc' = "ret_segments") =>
          /\ result' = segments'
          /\ segments' # segments =>
                segments' = Append(segments,
                    Segment(current_start,
                            Last(words).end + config.segment_padding_end_s))
          /\ segments' = segments =>
                (Last(words).end + config.segment_padding_end_s)
                    - current_start < config.min_segment_duration_s
    /\ (pc' = "ret_segments" /\ words = ScenarioAWords
            /\ config = DefaultConfig) =>
          result' = << Segment(0, 22), Segment(58, 72) >>

\* C9: a cut whose margins do not meet closes the interval at
\* cur.end + end_margin and opens the next at next.start - start_margin;
\* the first interval starts at max(0, words[0].start - start_margin), the
\* last ends at words[-1].end + end_margin, and Scenario A returns exactly
\* [0, 1.1) and [2.9, 3.6).
C9_CutBoundaries == [][C9_Step]_vars

C9_Witness ==
    /\ pc = "ret_segments"
    /\ words = ScenarioAWords
    /\ config = DefaultConfig
    /\ Len(result) = 2

\* the texts of the inputs that are fillers once stripped and lower-cased
SpokenFillers == {TipoComma, Tipo}

C10_Step ==
    IterateStep =>
        LET cur   == words[i + 1]
            nxt   == words[i + 2]
            gap   == nxt.start - cur.end
            gapBefore == IF i > 0 THEN cur.start - words[i].end ELSE 0
            ctx   == config.filler_word_context_pause
            mid   == cur.end + (gap \div 2)
        IN  /\ (cur.word \in SpokenFillers
                  /\ (gap > ctx \/ (i > 0 /\ gapBefore > ctx))) =>
                  /\ cut_reason' # "none"
                  /\ current_start' \in
                        {nxt.start - config.segment_padding_start_s, mid}
                  /\ segments' \in
                        { segments,
                          Append(segments, Segment(current_start,
                              cur.end + config.segment_padding_end_s)),
                          Append(segments, Segment(current_start, mid)) }
            /\ (cur.word \notin SpokenFillers
                  /\ gap < config.pause_threshold_s) =>
                  /\ cut_reason' = "none"
                  /\ segments' = segments
                  /\ current_start' = current_start

\* C10: a filler word followed by a gap above filler_word_context_pause, or
\* preceded by one, forces a cut at its end even when the gap to the next
\* word is below pause_threshold_s; a word that is no filler, followed by a
\* gap below pause_threshold_s, never triggers a cut.  (The words are those
\* that have a next word: the cut lies between a word and its successor.)
C10_FillerCut == [][C10_Step]_vars

C10_Witness ==
    /\ pc = "loop"
    /\ i > 0
    /\ cut_reason = "filler"
    /\ words[i].word = TipoComma
    /\ Pause(words, i - 1) < config.pause_threshold_s
    /\ Pause(words, i - 1) > config.filler_word_context_pause
    /\ segments # <<>>

\* every word has end >= start and starts no earlier than the word before
\* it ends
NonNegativeGaps(ws) ==
    /\ WordsWellFormed(ws)
    /\ \A k \in 1..(Len(ws) - 1) : ws[k].end <= ws[k + 1].start

C11_Step ==
    /\ (IterateStep /\ cut_reason' # "none"
            /\ words[i + 1].end + config.segment_padding_end_s
                 > words[i + 2].start - config.segment_padding_start_s) =>
          LET mid == words[i + 1].end
                       + ((words[i + 2].start - words[i + 1].end) \div 2)
          IN  /\ current_start' = mid
              /\ segments' # segments =>
                    segments' = Append(segments, Segment(current_start, mid))
    /\ (IterateStep /\ cut_reason' # "none" /\ i > 0 /\ cut_reason # "none"
            /\ words[i].end + config.segment_padding_end_s
                 > words[i + 1].start - config.segment_padding_start_s) =>
          LET mid == words[i].end + ((words[i + 1].start - words[i].end) \div 2)
          IN  /\ current_start = mid
              /\ segments' # segments => Last(segments').start = mid
    /\ segments' # segments =>
          /\ Len(segments') = Len(segments) + 1
          /\ Last(segments').end > Last(segments').start
    /\ (pc' = "ret_segments" /\ NonNegativeGaps(words)) =>
          \A k \in 1..(Len(result') - 1) :
             result'[k].end <= result'[k + 1].start
    /\ (pc' = "ret_segments" /\ words = ScenarioEWords
            /\ config = DefaultConfig) =>
          result' = << Segment(0, 12), Segment(18, 27), Segment(27, 38),
                       Segment(58, 72) >>

NonNegativeTimes(ws) ==
    \A k \in 1..Len(ws) : ws[k].start >= 0 /\ ws[k].end >= 0

\* C12: for word timestamps that are not negative, no interval starts
\* before 0: neither the running start (clamped at 0 on entry, then
\* next.start - start_margin or the midpoint) nor the start of an interval
\* emitted or returned.
C12_StartsNonNegative ==
    NonNegativeTimes(words) =>
        /\ pc \in {"loop", "ret_segments"} => current_start >= 0
        /\ \A k \in 1..Len(segments) : segments[k].start >= 0
        /\ pc = "ret_segments" =>
              \A k \in 1..Len(result) : result[k].start >= 0

C12_Witness ==
    /\ pc = "ret_segments"
    /\ Len(words) >= 2
    /\ words[1].start - config.segment_padding_start_s < 0
    /\ words[2].start - config.segment_padding_start_s < 0
    /\ cut_reason # "none"
    /\ result # <<>>
    /\ result[1].start
         = words[1].end + ((words[2].start - words[1].end) \div 2)

\* C13 as stated: a single word returns exactly one interval,
\* [max(0, start - start_margin), end + end_margin], whatever its duration
\* and start.
C13_SingleWord ==
    (pc = "ret_segments" /\ Len(words) = 1) =>
        result = << Segment(
            IF words[1].start - config.segment_padding_start_s < 0 THEN 0
            ELSE words[1].start - config.segment_padding_start_s,
            words[1].end + config.segment_padding_end_s) >>

\* C13, amended: a single word returns the one interval
\* [max(0, start - start_margin), end + end_margin] when that interval
\* lasts at least min_segment_duration_s, and no interval otherwise.
C13_SingleWord_Amended ==
    (pc = "ret_segments" /\ Len(words) = 1) =>
        LET s == IF words[1].start - config.segment_padding_start_s < 0 THEN 0
                 ELSE words[1].start - config.segment_padding_start_s
            e == words[1].end + config.segment_padding_end_s
        IN  IF e - s >= config.min_segment_duration_s
            THEN result = << Segment(s, e) >>
            ELSE result = <<>>

C13_Witness ==
    /\ pc = "ret_segments"
    /\ Len(words) = 1
    /\ words[1].start - config.segment_padding_start_s > 0
    /\ config.segment_padding_end_s > 0
    /\ Len(result) = 1

\* every gap between two words is below pause_threshold_s
AllGapsBelowThreshold(ws, cfg) ==
    \A k \in 1..(Len(ws) - 1) :
       ws[k + 1].start - ws[k].end < cfg.pause_threshold_s

\* no filler word has a gap above the context pause after it or before it
\* (the words are those that have a next word)
NoFillerContext(ws, cfg) ==
    \A k \in 1..(Len(ws) - 1) :
       ws[k].word \in SpokenFillers =>
          /\ ws[k + 1].start - ws[k].end <= cfg.filler_word_context_pause
          /\ k > 1 => ws[k].start - ws[k - 1].end
                          <= cfg.filler_word_context_pause

\* C14 as stated: when every gap is below pause_threshold_s the selector
\* returns exactly one interval, from the padded start of the first word to
\* the padded end of the last.
C14_AllGapsBelowThreshold ==
    (pc = "ret_segments" /\ words # <<>>
        /\ AllGapsBelowThreshold(words, config)) =>
        result = << Segment(
            IF words[1].start - config.segment_padding_start_s < 0 THEN 0
            ELSE words[1].start - config.segment_padding_start_s,
            Last(words).end + config.segment_padding_end_s) >>

\* C14, amended: when every gap is below pause_threshold_s and no filler
\* word has a gap above filler_word_context_pause after or before it, the
\* selector returns the one interval from the padded start of the first
\* word to the padded end of the last when it lasts at least
\* min_segment_duration_s, and no interval otherwise.
C14_NoCut_Amended ==
    (pc = "ret_segments" /\ words # <<>>
        /\ AllGapsBelowThreshold(words, config)
        /\ NoFillerContext(words, config)) =>
        LET s == IF words[1].start - config.segment_padding_start_s < 0 THEN 0
                 ELSE words[1].start - config.segment_padding_start_s
            e == Last(words).end + config.segment_padding_end_s
        IN  IF e - s >= config.min_segment_duration_s
            THEN result = << Segment(s, e) >>
            ELSE result = <<>>

C14_Witness ==
    /\ pc = "ret_segments"
    /\ Len(words) = 3
    /\ AllGapsBelowThreshold(words, config)
    /\ words[2].word = TipoComma
    /\ words[2].start - words[1].end > 0
    /\ words[3].start > words[2].end
    /\ Len(result) = 1
    /\ result[1].end = words[3].end + config.segment_padding_end_s

-----------------------------------------------------------------------------
(* Properties of the remapper, checked under SpecRemap                     *)

\* every interval has start <= end and ends no later than the next starts
KeptSortedNonOverlapping(kept) ==
    /\ \A k \in 1..Len(kept) : kept[k].start <= kept[k].end
    /\ \A k \in 1..(Len(kept) - 1) : kept[k].end <= kept[k + 1].start

RECURSIVE KeptDuration(_, _)
KeptDuration(kept, n) ==
    IF n = 0 THEN 0
    ELSE KeptDuration(kept, n - 1) + (kept[n].end - kept[n].start)

\* the time before the start of interval k that lies in no kept interval
RemovedBefore(kept, k) == kept[k].start - KeptDuration(kept, k - 1)

\* the lookup by a scan over the intervals in order
RECURSIVE LinearScan(_, _, _)
LinearScan(kept, t, k) ==
    IF k > Len(kept) THEN None
    ELSE IF kept[k].start <= t /\ t <= kept[k].end
         THEN Some(t - RemovedBefore(kept, k))
         ELSE LinearScan(kept, t, k + 1)

\* C2: for sorted, non-overlapping kept intervals remap_timestamp(t) has a
\* value exactly when some interval has start <= t <= end, the value is t
\* minus the time removed before that interval, and the binary search
\* agrees with a linear scan.
C2_RemapTimestamp ==
    (rm_call.op = "remap_timestamp"
        /\ KeptSortedNonOverlapping(segments_to_keep)) =>
        LET kept == segments_to_keep
            t    == rm_call.t
            hits == { k \in 1..Len(kept) :
                        kept[k].start <= t /\ t <= kept[k].end }
        IN  /\ (rm_call.ret # None) <=> (hits # {})
            /\ \A k \in hits : rm_call.ret = Some(t - RemovedBefore(kept, k))
            /\ rm_call.ret = LinearScan(kept, t, 1)

C2_Witness ==
    /\ rm_call.op = "remap_timestamp"
    /\ Len(segments_to_keep) = 2
    /\ KeptSortedNonOverlapping(segments_to_keep)
    /\ segments_to_keep[1].end < segments_to_keep[2].start
    /\ rm_call.t = segments_to_keep[2].start
    /\ rm_call.ret # None

\* two calls of remap_timestamp in a row, both with a value
TwoRemaps ==
    /\ rm_call.op = "remap_timestamp"
    /\ rm_call'.op = "remap_timestamp"
    /\ rm_call.ret # None
    /\ rm_call'.ret # None

KeptWellFormed(kept) == \A k \in 1..Len(kept) : kept[k].start <= kept[k].end

\* every interval is an Interval of the data model: end > start
KeptProper(kept) == \A k \in 1..Len(kept) : kept[k].start < kept[k].end

\* C3 as stated: for t1 < t2 both remapped by one instance,
\* remap(t1) < remap(t2) strictly (here already for sorted, non-overlapping
\* intervals with end > start).
C3_StrictlyMonotonic ==
    [][ (TwoRemaps /\ KeptSortedNonOverlapping(segments_to_keep)
            /\ KeptProper(segments_to_keep)) =>
          /\ rm_call.t < rm_call'.t => rm_call.ret[1] < rm_call'.ret[1]
          /\ rm_call.t > rm_call'.t => rm_call.ret[1] > rm_call'.ret[1] ]_vars

\* C3, amended: for t1 < t2 both remapped by one instance built from
\* intervals with start <= end, remap(t1) <= remap(t2); the end of a kept
\* interval and the start of the next one after a cut gap remap to the same
\* instant.
C3_Monotonic ==
    [][ (TwoRemaps /\ KeptWellFormed(segments_to_keep)) =>
          /\ rm_call.t < rm_call'.t => rm_call.ret[1] <= rm_call'.ret[1]
          /\ rm_call.t > rm_call'.t => rm_call.ret[1] >= rm_call'.ret[1]
          /\ (Len(_segments) >= 2 /\ rm_call.t = _segments[1].end
                /\ rm_call'.t = _segments[2].start
                /\ KeptSortedNonOverlapping(segments_to_keep)) =>
                rm_call.ret = rm_call'.ret ]_vars

C3_Witness ==
    /\ rm_call.op = "remap_timestamp"
    /\ Len(_segments) = 2
    /\ _segments[1].start < _segments[1].end
    /\ _segments[1].end < _segments[2].start
    /\ rm_call.t = _segments[2].start
    /\ rm_call.ret = Some(_segments[1].end - _offsets[1])

\* C4 as stated: with kept intervals [1.0, 2.0] and [5.0, 6.0],
\* remap(0.5) and remap(3.0) are None, remap(1.5) = 1.5, remap(5.5) = 4.5.
C4_ScenarioD ==
    (segments_to_keep = ScenarioDKept /\ rm_call.op = "remap_timestamp") =>
        /\ rm_call.t = 10 => rm_call.ret = None
        /\ rm_call.t = 60 => rm_call.ret = None
        /\ rm_call.t = 30 => rm_call.ret = Some(30)
        /\ rm_call.t = 110 => rm_call.ret = Some(90)

\* C4, amended: remap(0.5) and remap(3.0) are None, remap(1.5) = 0.5 and
\* remap(5.5) = 1.5: the offset inside the first interval is the 1.0 s
\* before it, the offset inside the second is 4.0 s (that 1.0 s and the
\* 3.0 s of the gap).
C4_ScenarioD_Amended ==
    (segments_to_keep = ScenarioDKept /\ rm_pc = "built") =>
        /\ _offsets = <<20, 80>>
        /\ rm_call.op = "remap_timestamp" =>
              /\ rm_call.t = 10 => rm_call.ret = None
              /\ rm_call.t = 60 => rm_call.ret = None
              /\ rm_call.t = 30 => rm_call.ret = Some(10)
              /\ rm_call.t = 110 => rm_call.ret = Some(30)

C4_Witness ==
    /\ segments_to_keep = ScenarioDKept
    /\ rm_call.op = "remap_timestamp"
    /\ rm_call.t = 110
    /\ rm_call.ret # None

\* C15 as stated: a remapper built from one kept interval maps every t of
\* the interval to t itself, whatever the start of the interval.
C15_RoundTrip ==
    (rm_call.op = "remap_timestamp" /\ Len(segments_to_keep) = 1
        /\ segments_to_keep[1].start <= rm_call.t
        /\ rm_call.t <= segments_to_keep[1].end) =>
        rm_call.ret = Some(rm_call.t)

\* C15, amended: a remapper built from one kept interval maps every t of
\* the interval to t - start, start being the start of the interval (the
\* time before it is removed too); the result is t itself exactly when the
\* interval starts at 0.
C15_RoundTrip_Amended ==
    (rm_call.op = "remap_timestamp" /\ Len(segments_to_keep) = 1
        /\ segments_to_keep[1].start <= rm_call.t
        /\ rm_call.t <= segments_to_keep[1].end) =>
        /\ rm_call.ret = Some(rm_call.t - segments_to_keep[1].start)
        /\ (rm_call.ret = Some(rm_call.t)) <=> (segments_to_keep[1].start = 0)

C15_Witness ==
    /\ rm_call.op = "remap_timestamp"
    /\ Len(segments_to_keep) = 1
    /\ segments_to_keep[1].start > 0
    /\ segments_to_keep[1].start < rm_call.t
    /\ rm_call.t <= segments_to_keep[1].end
    /\ rm_call.ret # None

\* C16: remap_event(start, end) is the pair of the two remapped endpoints
\* exactly when both have a value and the remapped end is strictly greater
\* than the remapped start, and None in every other case: an endpoint in no
\* kept interval, an event of zero width, an event from the end of one kept
\* interval to the start of the next.
C16_RemapEvent ==
    rm_call.op = "remap_event" =>
        LET kept == segments_to_keep
            s == remap_timestamp(_segments, _original_starts, _offsets,
                                 rm_call.t)
            e == remap_timestamp(_segments, _original_starts, _offsets,
                                 rm_call.t2)
        IN  /\ IF s # None /\ e # None /\ e[1] > s[1]
               THEN rm_call.ret = Some(<<s[1], e[1]>>)
               ELSE rm_call.ret = None
            /\ rm_call.ret # None => rm_call.ret[1][2] > rm_call.ret[1][1]
            /\ rm_call.t = rm_call.t2 => rm_call.ret = None
            /\ KeptSortedNonOverlapping(kept) =>
                  /\ (LinearScan(kept, rm_call.t, 1) = None
                        \/ LinearScan(kept, rm_call.t2, 1) = None) =>
                        rm_call.ret = None
                  /\ \A k \in 1..(Len(kept) - 1) :
                        (rm_call.t = kept[k].end
                            /\ rm_call.t2 = kept[k + 1].start) =>
                           rm_call.ret = None

C16_Witness ==
    /\ rm_call.op = "remap_event"
    /\ Len(segments_to_keep) = 2
    /\ KeptSortedNonOverlapping(segments_to_keep)
    /\ segments_to_keep[1].end < segments_to_keep[2].start
    /\ rm_call.t < segments_to_keep[1].end
    /\ rm_call.t2 >= segments_to_keep[2].start
    /\ rm_call.ret # None

\* the bijections of 1..n
Perms(n) ==
    { f \in [1..n -> 1..n] : \A a, b \in 1..n : a # b => f[a] # f[b] }

\* the same intervals in every order
Reordered(kept) ==
    { [k \in 1..Len(kept) |-> kept[f[k]]] : f \in Perms(Len(kept)) }

\* no two intervals of the list share more than a boundary, in any order
PairwiseNonOverlapping(kept) ==
    \A j, k \in 1..Len(kept) :
       j # k => (kept[j].end <= kept[k].start \/ kept[k].end <= kept[j].start)

\* C19: the tables of a built remapper depend only on the set of kept
\* intervals (non-overlapping, each with end > start): the same list, and
\* every reordering of it, gives the same starts and offsets and the same
\* remap_timestamp result.
C19_PureConstruction ==
    (rm_pc = "built" /\ KeptProper(segments_to_keep)
        /\ PairwiseNonOverlapping(segments_to_keep)) =>
        \A other \in Reordered(segments_to_keep) :
           LET segs    == SortedByStart(other)
               starts  == BuildOriginalStarts(segs)
               offsets == BuildOffsets(segs, 0, 0)
           IN  /\ segs = _segments
               /\ starts = _original_starts
               /\ offsets = _offsets
               /\ rm_call.op = "remap_timestamp" =>
                     rm_call.ret = remap_timestamp(segs, starts, offsets,
                                                   rm_call.t)

C19_Witness ==
    /\ rm_pc = "built"
    /\ Len(segments_to_keep) = 2
    /\ KeptProper(segments_to_keep)
    /\ PairwiseNonOverlapping(segments_to_keep)
    /\ segments_to_keep[1].start > segments_to_keep[2].start
    /\ rm_call.op = "remap_timestamp"
    /\ rm_call.ret # None

\* C20: once a remapper is built from non-overlapping kept intervals (each
\* with end > start, starts not negative), its offset table is
\* non-decreasing in interval order, has one entry per interval, and no
\* call of remap_timestamp or remap_event changes it or the other tables.
C20_OffsetsImmutable ==
    [][ (rm_pc' = "built" /\ KeptProper(segments_to_keep)
            /\ PairwiseNonOverlapping(segments_to_keep)
            /\ \A k \in 1..Len(segments_to_keep) :
                  segments_to_keep[k].start >= 0) =>
          /\ Len(_offsets') = Len(segments_to_keep)
          /\ \A k \in 1..(Len(_offsets') - 1) : _offsets'[k] <= _offsets'[k + 1]
          /\ rm_pc = "built" =>
                /\ _offsets' = _offsets
                /\ _original_starts' = _original_starts
                /\ _segments' = _segments ]_vars

C20_Witness ==
    /\ rm_pc = "built"
    /\ Len(_offsets) = 2
    /\ KeptProper(segments_to_keep)
    /\ PairwiseNonOverlapping(segments_to_keep)
    /\ _offsets[1] < _offsets[2]
    /\ rm_call.op = "remap_event"
    /\ rm_call.ret # None

-----------------------------------------------------------------------------
(* The two lists of the selector, checked under SpecSel                    *)

\* C17: a successful run returns, beside the padded intervals, the exact
\* ones, one for each padded interval: when the final padded interval is
\* returned, the value returned also holds an interval that ends at the end
\* of the last word, without margin; Scenario A returns the exact intervals
\* [0.0, 1.0) and [3.0, 3.5).
C17_PaddedAndExact ==
    /\ (pc = "ret_segments" /\ result # <<>>
          /\ Last(result).end
               = Last(words).end + config.segment_padding_end_s) =>
          \E k \in 1..Len(result) : result[k].end = Last(words).end
    /\ (pc = "ret_segments" /\ words = ScenarioAWords
          /\ config = DefaultConfig) =>
          /\ \E k \in 1..Len(result) : result[k] = Segment(0, 20)
          /\ \E k \in 1..Len(result) : result[k] = Segment(60, 70)

C21_Step ==
    (IterateStep /\ Pause(words, i) >= config.pause_threshold_s) =>
        LET score == IF Pause(words, i) > 16
                     THEN config.scores.pause_long
                     ELSE config.scores.pause_medium
        IN  /\ score > config.cut_threshold => cut_reason' # "pause"
            /\ (score <= config.cut_threshold
                  /\ words[i + 1].word \notin SpokenFillers) =>
                  cut_reason' = "pause"

\* C21: a gap with pause >= pause_threshold_s is given the long-pause score
\* when it is above 0.8 s and the medium-pause score otherwise, and it is a
\* pause cut exactly when that score is <= cut_threshold: when the score is
\* above cut_threshold the gap is no pause cut.
C21_ScoredPauseCut == [][C21_Step]_vars

StartBoundary(ws, a, cfg) ==
    IF a = 1
    THEN (IF ws[1].start - cfg.segment_padding_start_s < 0 THEN 0
          ELSE ws[1].start - cfg.segment_padding_start_s)
    ELSE IF ws[a - 1].end + cfg.segment_padding_end_s
                > ws[a].start - cfg.segment_padding_start_s
         THEN ws[a - 1].end + ((ws[a].start - ws[a - 1].end) \div 2)
         ELSE ws[a].start - cfg.segment_padding_start_s

EndBoundary(ws, b, cfg) ==
    IF b = Len(ws) THEN ws[b].end + cfg.segment_padding_end_s
    ELSE IF ws[b].end + cfg.segment_padding_end_s
                > ws[b + 1].start - cfg.segment_padding_start_s
         THEN ws[b].end + ((ws[b + 1].start - ws[b].end) \div 2)
         ELSE ws[b].end + cfg.segment_padding_end_s

WordCovered(ws, k, segs) ==
    \E j \in 1..Len(segs) :
        segs[j].start <= ws[k].start /\ ws[k].end <= segs[j].end

WordInShortInterval(ws, k, cfg) ==
    \E a \in 1..k : \E b \in k..Len(ws) :
        /\ StartBoundary(ws, a, cfg) <= ws[k].start
        /\ ws[k].end <= EndBoundary(ws, b, cfg)
        /\ EndBoundary(ws, b, cfg) - StartBoundary(ws, a, cfg)
               < cfg.min_segment_duration_s

\* C29: for words sorted by start with non-negative gaps, the span of every
\* word lies inside a returned padded interval, unless the word lies in an
\* interval shorter than min_segment_duration_s, which the filter dropped;
\* with min_segment_duration_s = 0 every word is covered.
C29_WordsCovered ==
    (pc = "ret_segments" /\ WordsSortedByStart(words)
        /\ NonNegativeGaps(words) /\ NonNegativeTimes(words)) =>
        /\ \A k \in 1..Len(words) :
              \/ WordCovered(words, k, result)
              \/ WordInShortInterval(words, k, config)
        /\ config.min_segment_duration_s = 0 =>
              \A k \in 1..Len(words) : WordCovered(words, k, result)

\* a run with a filler cut and a pause cut, no minimum duration, every word
\* covered
C29_Witness ==
    /\ pc = "ret_segments"
    /\ words = ScenarioEWords
    /\ config = NoMinDurationConfig
    /\ Len(result) >= 2
    /\ \A k \in 1..Len(words) : WordCovered(words, k, result)

-----------------------------------------------------------------------------
(* Properties of the analysis task, checked under SpecTask                 *)

\* C18: when the stop event is set once the content analysis has been
\* reached (after the check of line 225), the task ends with the message
\* 'interrupted', not 'error', and no 'sapiens_done' message announces a
\* script.
C18_InterruptedNotError ==
    [][ (task_pc \in {"l238", "selector"} /\ stop_event
            /\ task_pc' = "ended") =>
          /\ Last(pq').type = "interrupted"
          /\ \A k \in 1..Len(pq') :
                pq'[k].type \notin {"error", "sapiens_done"} ]_vars

\* C27: a task whose transcription gave at least one word and whose stop
\* event was never set ends after calling the selector with the message
\* 'sapiens_done' as its last message, and with no 'error' message.
C27_SapiensDone ==
    (task_pc = "ended" /\ ~stop_event /\ words # <<>>) =>
        /\ pq # <<>>
        /\ Last(pq).type = "sapiens_done"
        /\ \A k \in 1..Len(pq) : pq[k].type # "error"

-----------------------------------------------------------------------------
(* Properties of generate_srt, checked under SpecSrt                       *)

\* the indexes of the words that remap_event maps to a pair
RemappedIndexes ==
    { k \in 1..Len(words) :
        remap_event(_segments, _original_starts, _offsets,
                    words[k].start, words[k].end) # None }

\* C22: the list handed to the grouping of the lines holds exactly the
\* words for which remap_event returns a pair, in input order, each with
\* its remapped times and end > start, and (for words in start order)
\* with non-decreasing starts; a word that remap_event maps to None is
\* absent.
C22_RemappedWords ==
    srt_pc \in {"grouping", "ret_none"} =>
        /\ Len(remapped_words) = Cardinality(RemappedIndexes)
        /\ \E f \in [1..Len(remapped_words) -> RemappedIndexes] :
              /\ \A a \in 1..Len(remapped_words) :
                    \A b \in 1..Len(remapped_words) : a < b => f[a] < f[b]
              /\ \A a \in 1..Len(remapped_words) :
                    LET r == remap_event(_segments, _original_starts,
                                 _offsets, words[f[a]].start,
                                 words[f[a]].end)
                    IN  /\ remapped_words[a].start = r[1][1]
                        /\ remapped_words[a].end = r[1][2]
                        /\ remapped_words[a].text
                               = StripWhitespace(words[f[a]].word)
        /\ \A a \in 1..Len(remapped_words) :
              remapped_words[a].end > remapped_words[a].start
        /\ WordsSortedByStart(words) =>
              \A a \in 1..(Len(remapped_words) - 1) :
                  remapped_words[a].start <= remapped_words[a + 1].start
        /\ (srt_pc = "grouping") = (remapped_words # <<>>)

\* of two words the first is cut and the second, kept, is moved earlier
C22_Witness ==
    /\ srt_pc = "grouping"
    /\ Len(words) = 2
    /\ Len(remapped_words) = 1
    /\ Len(_segments) = 2
    /\ remapped_words[1].start > 0
    /\ remapped_words[1].start < words[2].start

-----------------------------------------------------------------------------
(* Properties of the database manager, checked under SpecDb                *)

\* C23: close() processes the pending operations: once the writer thread
\* has terminated, every operation that was put on the queue before close()
\* was called has been executed by it.
C23_CloseDrainsQueue ==
    (writer_pc = "terminated" /\ close_mark >= 0) =>
        \A k \in 1..close_mark :
            \E j \in 1..Len(executed) : executed[j] = enq_log[k]

\* C30: the writer executes the operations one at a time in the order of
\* the queue, and a caller that enqueued with wait=True and has returned
\* holds one result, the response to its own operation, which the writer
\* has executed, or a timeout error.
C30_OrderAndOwnResult ==
    /\ Len(executed) <= Len(enq_log)
    /\ \A k \in 1..Len(executed) : executed[k] = enq_log[k]
    /\ \A c \in Ops :
          (callers[c].pc = "returned" /\ callers[c].wait
              /\ callers[c].result.kind # "full") =>
              \/ callers[c].result.kind = "timeout"
              \/ /\ callers[c].result.kind = "response"
                 /\ callers[c].result.op = c
                 /\ \E j \in 1..Len(executed) : executed[j] = c
    /\ \A c \in Ops :
          (callers[c].pc # "returned" \/ ~callers[c].wait) =>
              callers[c].result.kind \in {"none", "queued", "full"}

\* two waiting callers, each answered, the operations executed in the
\* order of the queue, the second one enqueued first
C30_Witness ==
    /\ \A c \in Ops :
          /\ callers[c].pc = "returned"
          /\ callers[c].result.kind = "response"
          /\ callers[c].result.op = c
    /\ Len(executed) = MaxOps
    /\ executed[1] = MaxOps

-----------------------------------------------------------------------------
(* Properties of the queue runner and of the render task, checked under   *)
(* SpecApp                                                                 *)

RunningThreads == { k \in 1..Len(threads) : threads[k].pc # "finished" }

\* C24: at most one task worker thread is running at any time.
C24_OneWorker == Cardinality(RunningThreads) <= 1

\* C25: a finished run of run_render_task has put exactly one terminal
\* message, whether the render succeeded, failed or was stopped.
C25_OneTerminalMessage ==
    \A k \in 1..Len(threads) :
        (threads[k].pc = "finished"
            /\ threads[k].outcome \in {"success", "failed", "stopped"}) =>
            Len(threads[k].render_msgs) = 1

\* every message of the runs has been handled
Settled ==
    /\ progress_queue = <<>>
    /\ after_calls = <<>>
    /\ RunningThreads = {}

ThreadsOf(t) == { k \in 1..Len(threads) : threads[k].task = t }

\* C26: once every message of its one run is handled, a render task whose
\* render failed has the status 'Erro', one stopped by the user has the
\* status 'Interrompido', and one has the status 'Concluido' only if its
\* render completed.
C26_StatusMatchesOutcome ==
    Settled =>
        \A k \in 1..Len(threads) :
            (threads[k].mode = "render_only"
                /\ ThreadsOf(threads[k].task) = {k}) =>
                LET st == status[threads[k].task]
                IN  /\ threads[k].outcome = "failed" => st = STATUS_ERROR
                    /\ threads[k].outcome = "stopped" =>
                          st = STATUS_INTERRUPTED
                    /\ st = STATUS_COMPLETED =>
                          threads[k].outcome = "success"

-----------------------------------------------------------------------------
(* Property of the hand-over to rendering, checked under SpecScript        *)

\* C28: in full-pipeline mode the script written by generate_and_save_json
\* from a non-empty segment list is accepted by the validation: once
\* 'sapiens_done' is handled the task has the status 'Aguardando Render'
\* and the start of the render is scheduled, and the task has not ended in
\* error.
C28_ScriptAccepted ==
    (script_pc = "handled" /\ tasks[1].mode = "full_pipe"
        /\ \A k \in 1..Len(segments) : segments[k].start < segments[k].end)
        =>
        /\ ValidScript(script[1])
        /\ status[1] = STATUS_AWAIT_RENDER
        /\ \E k \in 1..Len(after_calls) :
              after_calls[k].fn = "start_render_safe"

====
